---- MODULE Spec2Model ----
(***************************************************************************)
(* Model of netlify/functions/drive.js: the Google Drive proxy function.   *)
(*                                                                         *)
(*   fetchWithTimeout / fetchWithRetry   the retry executor                *)
(*   getAccessToken                      the process-wide token cache      *)
(*   handler                             the request router                *)
(*                                                                         *)
(* Every await of the source is a step boundary: what the code does        *)
(* between two awaits is one action (JavaScript runs it without            *)
(* interleaving), and other invocations and the clock may move at an       *)
(* await.                                                                  *)
(***************************************************************************)
EXTENDS Integers, Sequences, FiniteSets, TLC

VARIABLES
    fr,                 \* the frame of the fetchWithRetry call in progress
    cachedToken,        \* drive.js:128  let cachedToken = null
    cachedTokenExpMs,   \* drive.js:129  let cachedTokenExpMs = 0
    clock,              \* Date.now()
    ticks,              \* how often the clock has advanced (bounded)
    env,                \* process.env.GOOGLE_SERVICE_ACCOUNT_JSON: its kind
    issued,             \* tokens the identity provider has issued so far
    fetchLog,           \* history: the completed token fetches, in completion order
    ga,                 \* the frames of the getAccessToken calls, per caller
    h                   \* the frame of the handler invocation in progress

vars == <<fr, cachedToken, cachedTokenExpMs, clock, ticks, env, issued, fetchLog, ga, h>>

tokenVars == <<cachedToken, cachedTokenExpMs, clock, ticks, env, issued, fetchLog, ga>>

(***************************************************************************)
(* Bounds of the model.                                                    *)
(***************************************************************************)
MaxAttempts == 3        \* largest attempt budget a direct call is given
MaxTicks == 2           \* clock advances per behaviour
MaxTokens == 2          \* tokens the identity provider issues per behaviour
NCallers == 2           \* concurrent getAccessToken callers

(***************************************************************************)
(* Values.                                                                 *)
(***************************************************************************)
Null == 0               \* null / undefined, for tokens, statuses and times
NoErr == "none"         \* lastErr undefined

\* Status codes the upstream answers with: success, a client error, a
\* transient error every policy retries, and the gateway timeout that only
\* some policies retry.
Statuses == {200, 404, 503, 504}

\* Errors a transport call throws: the per-attempt timeout's abort, and a
\* network failure.
Errors == {"AbortError", "TypeError"}

Resp(s) == [kind |-> "resp", status |-> s, err |-> NoErr]
Throw(e) == [kind |-> "throw", status |-> Null, err |-> e]

\* What one fetchWithTimeout call can end with: a response of any status, or
\* an exception (the abort at timeoutMs, or a network error).
fetchWithTimeout == {Resp(s) : s \in Statuses} \cup {Throw(e) : e \in Errors}

\* The statuses of an upstream that refuses the token or the access, and
\* what a transport call can end with when the upstream may do so.
Unauthorized == {401, 403}
RefusingOutcomes == {Resp(s) : s \in {200, 503} \cup Unauthorized} \cup {Throw("AbortError")}

\* Response.ok
IsOk(status) == status >= 200 /\ status <= 299

(***************************************************************************)
(* fetchWithRetry (drive.js:94-122)                                        *)
(***************************************************************************)
DefaultBaseDelayMs == 250
DefaultTimeoutMs == 12000
DefaultRetryStatuses == {429, 500, 502, 503, 504}
\* The policy of the variants that leave 504 out.
NoGatewayRetryStatuses == {429, 500, 502, 503}
JitterBound == 120
\* Math.random() * 120 is a real in [0, 120): sampled at its ends and middle.
JitterSamples == {0, 60, JitterBound - 1}

RetryPolicies == {DefaultRetryStatuses, NoGatewayRetryStatuses}

IdleFrame ==
    [pc |-> "idle", attempts |-> 0, retryStatuses |-> {}, i |-> 0,
     timeoutMs |-> 0, res |-> Null, lastErr |-> NoErr, err |-> NoErr,
     log |-> <<>>, calls |-> 0, sleeps |-> 0, delay |-> 0,
     \* fetchWithTimeout's abort timer is pending (lines 86, 90)
     timer |-> FALSE]

\* Entry: let lastErr; let res; i = 0. With attempts left the first
\* fetchWithTimeout call is made at once, and sets its timer.
NewFrame(attempts, retryStatuses) ==
    [IdleFrame EXCEPT !.pc = "loop", !.attempts = attempts,
                      !.timeoutMs = DefaultTimeoutMs,
                      !.retryStatuses = retryStatuses, !.timer = (attempts > 0)]

RetryUnauthorized(status, retryStatuses) == status \in retryStatuses \cup Unauthorized
RetryAllFailures(status, retryStatuses) == TRUE
RetryNone(status, retryStatuses) == FALSE
\* retryStatuses.includes(res.status)
Retryable(status, retryStatuses) == status \in retryStatuses

\* The body of the try block for a response: return it when ok, return it when
\* its status is not retryable, else fall through to the backoff.
OnResponse(f, status) ==
    IF IsOk(status) \/ ~Retryable(status, f.retryStatuses)
    THEN [f EXCEPT !.res = status, !.pc = "returned"]
    ELSE [f EXCEPT !.res = status, !.pc = "backoff"]

OnThrowSkipsLastSleep(f, e) ==
    IF f.i + 1 < f.attempts THEN [f EXCEPT !.lastErr = e, !.pc = "backoff"]
    ELSE [f EXCEPT !.lastErr = e, !.pc = "loop", !.i = @ + 1]
ThrowAtOnce(f, e) == [f EXCEPT !.lastErr = e, !.err = e, !.pc = "threw"]
\* catch (e) { lastErr = e; }
OnThrow(f, e) == [f EXCEPT !.lastErr = e, !.pc = "backoff"]

LinearDelay(i, jitter) == DefaultBaseDelayMs * (i + 1) + jitter
\* baseDelayMs * 2 ** i + jitter
BackoffDelay(i, jitter) == DefaultBaseDelayMs * (2 ^ i) + jitter

\* After the loop: if (!res) throw lastErr || new Error(...); return res;
AfterLoop(f) ==
    IF f.res = Null
    THEN [f EXCEPT !.pc = "threw",
                   !.err = IF f.lastErr = NoErr THEN "Error" ELSE f.lastErr]
    ELSE [f EXCEPT !.pc = "returned"]

\* A direct call with a policy of the caller's choice.
FrCall ==
    /\ fr.pc = "idle"
    /\ h.pc = "idle"
    /\ \E n \in 0..MaxAttempts, rs \in RetryPolicies : fr' = NewFrame(n, rs)
    /\ UNCHANGED <<tokenVars, h>>

\* A request of the handler goes out with Authorization: Bearer token, now: the history
\* keeps the tokens sent, and whether one was sent at or after the expiry
\* the cache had for it.
Sends(hh) ==
    [hh EXCEPT !.bearers = @ \cup {hh.token},
               !.sentExpired = @ \/ (clock >= hh.tokenExp)]

\* How many resources the upstream may have created when a create request
\* ended with o: one when it answered success, none when it refused the
\* request, and one or none when the answer was lost, timed out or is a
\* server error.
Stores(o) ==
    IF o.kind = "resp" /\ IsOk(o.status) THEN {1}
    ELSE IF o.kind = "resp" /\ o.status \in {404} \cup Unauthorized THEN {0}
    ELSE {0, 1}

\* One iteration's try/catch: the transport call and its classification.
\* The transport call of an upload may leave a resource in the storage.
FrAttemptOf(outcomes) ==
    /\ fr.pc = "loop"
    /\ fr.i < fr.attempts
    /\ \E o \in outcomes :
         LET f == [fr EXCEPT !.calls = @ + 1, !.log = Append(@, o), !.timer = FALSE]
         IN  /\ fr' = IF o.kind = "resp" THEN OnResponse(f, o.status)
                                         ELSE OnThrow(f, o.err)
             /\ IF h.pc = "upload"
                THEN \E n \in Stores(o) : h' = [h EXCEPT !.stored = @ + n]
                ELSE h' = h
    /\ UNCHANGED tokenVars

FrAttempt == FrAttemptOf(fetchWithTimeout)

\* const jitter = ...; await new Promise(r => setTimeout(r, delay))
FrBackoff ==
    /\ fr.pc = "backoff"
    /\ \E j \in JitterSamples :
         fr' = [fr EXCEPT !.pc = "sleeping", !.sleeps = @ + 1,
                          !.delay = BackoffDelay(fr.i, j)]
    /\ UNCHANGED <<tokenVars, h>>

\* The sleep ends; i++, and the next fetchWithTimeout call if one is left.
FrWake ==
    /\ fr.pc = "sleeping"
    /\ fr' = [fr EXCEPT !.pc = "loop", !.i = @ + 1, !.delay = 0,
                     !.timer = (fr.i + 1 < fr.attempts)]
    /\ h' = IF h.pc \in {"list", "download", "upload"} /\ fr.i + 1 < fr.attempts
            THEN Sends(h) ELSE h
    /\ UNCHANGED tokenVars

\* The loop condition fails.
FrExit ==
    /\ fr.pc = "loop"
    /\ fr.i >= fr.attempts
    /\ fr' = AfterLoop(fr)
    /\ UNCHANGED <<tokenVars, h>>

\* The direct caller takes the result.
FrDone ==
    /\ fr.pc \in {"returned", "threw"}
    /\ h.pc = "idle"
    /\ fr' = IdleFrame
    /\ UNCHANGED <<tokenVars, h>>

\* The promise of fetchWithRetry has settled.
FrFinished == fr.pc \in {"returned", "threw"}

(***************************************************************************)
(* getAccessToken (drive.js:128-152)                                       *)
(***************************************************************************)
MarginMs == 30000
TokenLifeMs == 55 * 60 * 1000

Callers == 1..NCallers

\* The clock advances by one of these: to one millisecond before the refresh
\* threshold of a token fetched now, or by one millisecond.
TimeSteps == {TokenLifeMs - MarginMs - 1, 1}

IdleCall ==
    [pc |-> "idle", now |-> 0, ret |-> Null, err |-> NoErr, idp |-> FALSE,
     tokAtCall |-> Null, expAtCall |-> 0]

FreshUntilExpiry(token, expMs, now) == token # Null /\ now < expMs
FreshNever(token, expMs, now) == FALSE
\* cachedToken && now < cachedTokenExpMs - 30_000
CacheFresh(token, expMs, now) == token # Null /\ now < expMs - MarginMs

\* cachedTokenExpMs = now + 55 * 60 * 1000, now read at the call's start
NewExpiry(now, completedAt) == now + TokenLifeMs

\* What the identity provider's two awaits (auth.getClient(),
\* client.getAccessToken()) end with: a token, an empty token response, or an
\* exception. No shared state is touched between the two awaits, so they are
\* one step.
IdpOutcomes == {"token", "empty", "throws"}

\* Lines 132-144: from the call to the first await, or to an early exit.
GetAccessTokenEnter(p) ==
    LET now == clock
        c   == [IdleCall EXCEPT !.now = now, !.tokAtCall = cachedToken,
                                !.expAtCall = cachedTokenExpMs]
    IN  /\ ga[p].pc = "idle"
        /\ ga' = [ga EXCEPT ![p] =
             IF CacheFresh(cachedToken, cachedTokenExpMs, now)
             THEN [c EXCEPT !.pc = "done", !.ret = cachedToken]
             ELSE IF env = "absent"
             THEN [c EXCEPT !.pc = "threw", !.err = "GOOGLE_SERVICE_ACCOUNT_JSON manquant"]
             ELSE IF env = "malformed"
             THEN [c EXCEPT !.pc = "threw", !.err = "SyntaxError"]
             ELSE [c EXCEPT !.pc = "await", !.idp = TRUE]]
        /\ UNCHANGED <<cachedToken, cachedTokenExpMs, clock, ticks, env, issued, fetchLog>>

StoreKeepExpiry(p, token) ==
    /\ cachedToken' = token
    /\ cachedTokenExpMs' = IF cachedToken = Null THEN NewExpiry(ga[p].now, clock)
                                                 ELSE cachedTokenExpMs
\* Lines 149-150: both fields are written with no await between them.
StoreToken(p, token) ==
    /\ cachedToken' = token
    /\ cachedTokenExpMs' = NewExpiry(ga[p].now, clock)

FailClearsCache(p, err) ==
    /\ ga' = [ga EXCEPT ![p].pc = "threw", ![p].err = err]
    /\ cachedToken' = Null
    /\ cachedTokenExpMs' = 0
    /\ UNCHANGED <<issued, fetchLog>>
\* Lines 144 and 148: the call throws after the await; nothing is assigned.
Fail(p, err) ==
    /\ ga' = [ga EXCEPT ![p].pc = "threw", ![p].err = err]
    /\ UNCHANGED <<cachedToken, cachedTokenExpMs, issued, fetchLog>>

\* Lines 144-151: the identity provider answers.
GetAccessTokenResume(p) ==
    /\ ga[p].pc = "await"
    /\ \E o \in IdpOutcomes :
         \/ /\ o = "token"
            /\ issued < MaxTokens
            /\ LET token == issued + 1
               IN  /\ StoreToken(p, token)
                   /\ issued' = token
                   /\ fetchLog' = Append(fetchLog, [token |-> token, start |-> ga[p].now])
                   /\ ga' = [ga EXCEPT ![p].pc = "done", ![p].ret = cachedToken']
         \/ /\ o = "empty"
            /\ Fail(p, "Token Drive vide")
         \/ /\ o = "throws"
            /\ Fail(p, "IdpError")
    /\ UNCHANGED <<clock, ticks, env>>

\* A caller other than the handler calls getAccessToken.
GaCall(p) ==
    /\ GetAccessTokenEnter(p)
    /\ UNCHANGED <<fr, h>>

GaIdp(p) ==
    /\ GetAccessTokenResume(p)
    /\ UNCHANGED <<fr, h>>

\* The caller takes the token or the exception.
GaReturn(p) ==
    /\ ga[p].pc \in {"done", "threw"}
    /\ ga' = [ga EXCEPT ![p] = IdleCall]
    /\ UNCHANGED <<fr, h, cachedToken, cachedTokenExpMs, clock, ticks, env, issued, fetchLog>>

\* Time passes.
Tick ==
    /\ ticks < MaxTicks
    /\ \E d \in TimeSteps : clock' = clock + d
    /\ ticks' = ticks + 1
    /\ UNCHANGED <<fr, h, cachedToken, cachedTokenExpMs, env, issued, fetchLog, ga>>

(***************************************************************************)
(* The storage API, as the handler sees it                                 *)
(***************************************************************************)
\* Folders the list operation is asked for. F1 has two entries on every page;
\* F2 has one entry on its odd pages and none on its even pages.
Ids == {"F1", "F2"}
PageSize(id, page) == IF id = "F1" THEN 2 ELSE page % 2
Entry(page, k) == page * 10 + k
PageFiles(id, page) == [k \in 1..PageSize(id, page) |-> Entry(page, k)]

\* The page a list request asks for: the first without a pageToken, else the
\* one the token names.
PageAsked(pageToken) == IF pageToken = Null THEN 1 ELSE pageToken

\* What reading a response body can give: the upstream's JSON, a failed read
\* (the promise of res.text() / res.arrayBuffer() rejects), or text that is
\* not the JSON expected.
BodyReads == {"json", "unreadable", "notjson"}

(***************************************************************************)
(* CORS (drive.js:23-74)                                                   *)
(***************************************************************************)
HardcodedOrigins ==
    {"https://smes21540.github.io", "https://smes21540.netlify.app",
     "https://app.tondomaine.fr", "https://www.tondomaine.fr",
     "http://localhost:5173", "http://localhost:3000"}

\* process.env.DOMAINS_ALLOWED after split(","), trim and filter(Boolean).
DomainsAllowed == {"https://extra.example"}

getAllowedOrigins == HardcodedOrigins \cup DomainsAllowed

\* pickAllowOrigin's null, and a header that is not in the response.
NoAllowOrigin == "null"
Absent == "(absent)"

pickFirstWhenUnknown(originHeader) ==
    IF originHeader = "" THEN "*"
    ELSE IF originHeader \in getAllowedOrigins THEN originHeader
    ELSE "https://smes21540.github.io"
pickAllowOrigin(originHeader) ==
    IF originHeader = "" THEN "*"
    ELSE IF originHeader \in getAllowedOrigins THEN originHeader
    ELSE NoAllowOrigin

\* The headers of a response that the claims read: the three CORS headers and
\* the max-age of Cache-Control (Null without one, and for no-store).
corsHeaders(allowOrigin) ==
    [allowMethods |-> "GET, POST, OPTIONS",
     allowHeaders |-> "Content-Type, Authorization, X-Requested-With",
     allowOrigin  |-> IF allowOrigin = NoAllowOrigin THEN Absent ELSE allowOrigin,
     maxAge       |-> Null]

\* The Origin headers of the events: none, a hardcoded origin, an origin of
\* DOMAINS_ALLOWED, an origin that is not allowed.
Origins == {"", "https://smes21540.github.io", "https://extra.example", "https://evil.example"}

(***************************************************************************)
(* Helpers: cache duration (drive.js:158-161)                              *)
(***************************************************************************)
MsPerDay == 86400000

\* new Date().toISOString().slice(0, 10).replace(/-/g, ""): the UTC day, as
\* the number of the day since 1970-01-01.
Today(now) == now \div MsPerDay

\* The name parameter of the events, and the days whose YYYYMMDD a name holds.
Names == {"", "releve_19700101.csv", "releve_19700102.csv"}
DatesIn(name) ==
    IF name = "releve_19700101.csv" THEN {0}
    ELSE IF name = "releve_19700102.csv" THEN {1}
    ELSE {}

cacheSecondsSwapped(fileName, now) == IF Today(now) \in DatesIn(fileName) THEN 3600 ELSE 60
\* fileName.includes(today) ? 60 : 3600
computeCacheSeconds(fileName, now) == IF Today(now) \in DatesIn(fileName) THEN 60 ELSE 3600

(***************************************************************************)
(* Helpers: text and csv (drive.js:163-213)                                *)
(***************************************************************************)
\* A buffer is a sequence of bytes, a string a sequence of UTF-16 code
\* units. The bytes the contents are made of: A, 0x80, the bytes of the
\* UTF-8 mark EF BB BF, 0xE9, and the bytes of the UTF-16 marks FE, FF.
MaxLen == 4
Bytes == {65, 128, 187, 191, 233, 239, 254, 255}

RECURSIVE SeqsUpTo(_, _)
SeqsUpTo(S, n) ==
    IF n = 0 THEN {<<>>}
    ELSE LET shorter == SeqsUpTo(S, n - 1)
         IN  shorter \cup {Append(q, x) : q \in {t \in shorter : Len(t) = n - 1}, x \in S}

Buffers == SeqsUpTo(Bytes, MaxLen)

ReplacementChar == 65533        \* "\uFFFD"
MarkChar == 65279               \* "\uFEFF", the byte-order mark

\* buf.slice(n)
SliceFrom(buf, n) == SubSeq(buf, n + 1, Len(buf))

IsContinuation(x) == x >= 128 /\ x <= 191

\* buf.toString("utf8") from the byte at index k on: each well-formed
\* sequence gives its code point (two surrogates above U+FFFF), each maximal
\* ill-formed part gives one U+FFFD. A leading mark is decoded like any
\* other character.
RECURSIVE Utf8From(_, _)
Utf8From(buf, k) ==
    IF k > Len(buf) THEN <<>>
    ELSE LET c == buf[k]
             has(n) == k + n <= Len(buf)
             b(n) == buf[k + n]
             second(lo, hi) == has(1) /\ b(1) >= lo /\ b(1) <= hi
             bad(n) == <<ReplacementChar>> \o Utf8From(buf, k + n)
         IN  IF c < 128 THEN <<c>> \o Utf8From(buf, k + 1)
             ELSE IF c >= 194 /\ c <= 223
             THEN IF ~second(128, 191) THEN bad(1)
                  ELSE <<(c - 192) * 64 + (b(1) - 128)>> \o Utf8From(buf, k + 2)
             ELSE IF c >= 224 /\ c <= 239
             THEN IF ~second(IF c = 224 THEN 160 ELSE 128, IF c = 237 THEN 159 ELSE 191)
                  THEN bad(1)
                  ELSE IF ~(has(2) /\ IsContinuation(b(2))) THEN bad(2)
                  ELSE <<(c - 224) * 4096 + (b(1) - 128) * 64 + (b(2) - 128)>>
                       \o Utf8From(buf, k + 3)
             ELSE IF c >= 240 /\ c <= 244
             THEN IF ~second(IF c = 240 THEN 144 ELSE 128, IF c = 244 THEN 143 ELSE 191)
                  THEN bad(1)
                  ELSE IF ~(has(2) /\ IsContinuation(b(2))) THEN bad(2)
                  ELSE IF ~(has(3) /\ IsContinuation(b(3))) THEN bad(3)
                  ELSE LET cp == (c - 240) * 262144 + (b(1) - 128) * 4096
                                 + (b(2) - 128) * 64 + (b(3) - 128) - 65536
                       IN  <<55296 + (cp \div 1024), 56320 + (cp % 1024)>>
                           \o Utf8From(buf, k + 4)
             ELSE bad(1)

Utf8(buf) == Utf8From(buf, 1)

\* The characters of the bytes 0x80..0x9F in windows-1252, U+FFFD for the
\* five bytes it leaves undefined.
Win1252High ==
    <<8364, 65533, 8218, 402, 8222, 8230, 8224, 8225, 710, 8240, 352, 8249, 338, 65533, 381, 65533,
      65533, 8216, 8217, 8220, 8221, 8226, 8211, 8212, 732, 8482, 353, 8250, 339, 65533, 382, 376>>

\* iconv.decode(buf, "win1252"): one character per byte.
Win1252(buf) ==
    [k \in 1..Len(buf) |->
        IF buf[k] >= 128 /\ buf[k] <= 159 THEN Win1252High[buf[k] - 127] ELSE buf[k]]

\* iconv.decode(buf, "utf16-le" | "utf16-be"): one code unit per pair of
\* bytes; a last byte without its pair gives nothing.
Utf16(buf, littleEndian) ==
    [k \in 1..(Len(buf) \div 2) |->
        IF littleEndian THEN buf[2 * k - 1] + 256 * buf[2 * k]
                        ELSE 256 * buf[2 * k - 1] + buf[2 * k]]

\* utf8.includes("\uFFFD")
HasReplacement(text) == \E k \in 1..Len(text) : text[k] = ReplacementChar

StartsWith(q, prefix) ==
    Len(q) >= Len(prefix) /\ SubSeq(q, 1, Len(prefix)) = prefix

Decoded(branch, text) == [branch |-> branch, text |-> text]
\* The decoder was not applied.
NotDecoded == Decoded("", <<>>)

decodeMarkThenLegacy(buf) ==
    IF StartsWith(buf, <<239, 187, 191>>)
    THEN IF HasReplacement(Utf8(SliceFrom(buf, 3)))
         THEN Decoded("win1252", Win1252(SliceFrom(buf, 3)))
         ELSE Decoded("utf8-bom", Utf8(SliceFrom(buf, 3)))
    ELSE IF HasReplacement(Utf8(buf)) THEN Decoded("win1252", Win1252(buf))
    ELSE Decoded("utf8", Utf8(buf))
decodeLegacyFirst(buf) ==
    IF StartsWith(buf, <<239, 187, 191>>) THEN Decoded("utf8-bom", Utf8(SliceFrom(buf, 3)))
    ELSE Decoded("win1252", Win1252(buf))
\* decodeTextSmart: the text, and the branch that returned it.
decodeTextSmart(buf) ==
    IF StartsWith(buf, <<239, 187, 191>>) THEN Decoded("utf8-bom", Utf8(SliceFrom(buf, 3)))
    ELSE IF StartsWith(buf, <<255, 254>>) THEN Decoded("utf16-le", Utf16(SliceFrom(buf, 2), TRUE))
    ELSE IF StartsWith(buf, <<254, 255>>) THEN Decoded("utf16-be", Utf16(SliceFrom(buf, 2), FALSE))
    ELSE IF HasReplacement(Utf8(buf)) THEN Decoded("win1252", Win1252(buf))
    ELSE Decoded("utf8", Utf8(buf))

\* A content type is the sequence of the parts it is written with, so that
\* startsWith and includes look at its parts.
TextPlain == <<"text/", "plain">>
OctetStream == <<"application/", "octet-stream">>
CsvUtf8 == <<"text/", "csv", "; ", "charset=", "utf-8">>
CharsetUtf8 == <<"; ", "charset=", "utf-8">>

\* The Content-Type headers of the upstream's download responses; <<>> is a
\* response without one.
ContentTypes ==
    {<<>>, TextPlain, OctetStream,
     <<"TEXT/", "PLAIN">>,
     <<"text/", "plain", "; ", "charset=", "iso-8859-1">>,
     <<"application/", "json">>,
     <<"application/", "xml">>,
     <<"application/", "x-", "csv">>,
     <<"image/", "png">>}

\* toLowerCase on the parts and the names that are not in lower case.
lowerPart(part) ==
    IF part = "TEXT/" THEN "text/"
    ELSE IF part = "PLAIN" THEN "plain"
    ELSE IF part = "DATA.CSV" THEN "data.csv" ELSE part
lowerType(ct) == [k \in 1..Len(ct) |-> lowerPart(ct[k])]

startsWith(ct, part) == Len(ct) >= 1 /\ ct[1] = part
includes(ct, part) == \E k \in 1..Len(ct) : ct[k] = part

\* The name parameters of the downloads, and n.endsWith(".csv") on them.
DownloadNames == {"", "releve_19700101.csv", "DATA.CSV", "photo.png"}
endsWithCsv(n) == n \in {"releve_19700101.csv", "releve_19700102.csv", "data.csv"}

isCsvOrTextNotXml(contentType, name) ==
    \/ endsWithCsv(lowerPart(name))
    \/ startsWith(lowerType(contentType), "text/")
    \/ includes(lowerType(contentType), "csv")
    \/ includes(lowerType(contentType), "json")
isCsvOrText(contentType, name) ==
    LET ct == lowerType(contentType)
        n  == lowerPart(name)
    IN  \/ endsWithCsv(n)
        \/ startsWith(ct, "text/")
        \/ includes(ct, "csv")
        \/ includes(ct, "json")
        \/ includes(ct, "xml")

ensureCharsetUtf8(contentType, name) ==
    LET n  == lowerPart(name)
        ct == IF contentType = <<>> THEN TextPlain ELSE contentType
    IN  IF endsWithCsv(n) THEN CsvUtf8
        ELSE IF includes(lowerType(ct), "charset=") THEN ct
        ELSE ct \o CharsetUtf8

shouldAddBomByName(name, contentType) == endsWithCsv(lowerPart(name))
shouldAddBom(name, contentType) ==
    LET n  == lowerPart(name)
        ct == lowerType(contentType)
    IN  endsWithCsv(n) \/ includes(ct, "csv")

\* if (!text.startsWith(bom)) text = bom + text
WithMark(text) == IF StartsWith(text, <<MarkChar>>) THEN text ELSE <<MarkChar>> \o text

\* Buffer.from(arrayBuf).toString("base64"): four sextets for three bytes,
\* Pad for the sextets a short last group does not have.
Pad == 64
RECURSIVE Base64(_)
Base64(buf) ==
    IF Len(buf) = 0 THEN <<>>
    ELSE IF Len(buf) = 1
    THEN <<buf[1] \div 4, (buf[1] % 4) * 16, Pad, Pad>>
    ELSE IF Len(buf) = 2
    THEN <<buf[1] \div 4, (buf[1] % 4) * 16 + buf[2] \div 16, (buf[2] % 16) * 4, Pad>>
    ELSE <<buf[1] \div 4, (buf[1] % 4) * 16 + buf[2] \div 16,
           (buf[2] % 16) * 4 + buf[3] \div 64, buf[3] % 64>> \o Base64(SliceFrom(buf, 3))

(***************************************************************************)
(* handler (drive.js:219-470)                                              *)
(***************************************************************************)
maxPages == 25
ListAttempts == 3
ListTimeoutMs == 12000
DownloadAttempts == 3
DownloadTimeoutMs == 30000
UploadAttempts == 3
UploadTimeoutMs == 20000

\* event.httpMethod; "" is an event without one.
Methods == {"OPTIONS", "GET", "POST", "PUT"}
\* event.body of a POST: a complete upload request, JSON lacking a required
\* field, or text that is not JSON.
PostBodies == {"upload", "missing", "malformed"}
\* qp.list
ListParams == {"", "true", "TRUE", "false"}

sameCase(str) == str
\* String.prototype.toLowerCase, on the values of qp.list.
toLowerCase(str) == IF str = "TRUE" THEN "true" ELSE str

\* What an upstream error response says in its body, and what the message
\* of a thrown error says: the detail the handler logs.
Details == {"quota exceeded for project 42", "connect ECONNRESET 10.0.0.7"}

\* hh after the handler read the detail d of a failure.
Logged(hh, d) == [hh EXCEPT !.detail = d]

\* The identifiers the upstream gives the resource an upload creates.
CreatedIds == {"U1", "U2"}

\* The inbound events. Fields the method's branch never reads are left empty.
\* Every Origin goes with every operation, and every spelling of list and
\* every name goes with every operation of a request without Origin.
Events ==
    {e \in [method : Methods \cup {""}, origin : Origins, id : Ids \cup {""},
            list : ListParams, name : Names, post : PostBodies \cup {""}] :
        /\ (e.method = "POST") = (e.post # "")
        /\ e.method \notin {"GET", ""} => (e.id = "" /\ e.list = "" /\ e.name = "")
        /\ e.method = "" => (e.origin = "" /\ e.list = "" /\ e.name = "")
        /\ e.origin # "" => (e.name = "" /\ e.list \in {"", "true"})}

\* The events that differ in what the handler does, not in how they spell it.
CoreEvents ==
    {e \in Events : e.method # "" /\ e.origin = "" /\ e.name = "" /\ e.list \in {"", "true"}}

\* Response bodies. The texts are the source's, without their accents.
NoBody ==
    [kind |-> "empty", error |-> "", status |-> Null, files |-> <<>>, id |-> "",
     text |-> <<>>, base64 |-> <<>>]
TextBody(text) == [NoBody EXCEPT !.kind = "text", !.error = text]
\* JSON.stringify({ error, status })
ErrorBody(error, status) == [NoBody EXCEPT !.kind = "error", !.error = error, !.status = status]
\* JSON.stringify({ files })
FilesBody(files) == [NoBody EXCEPT !.kind = "files", !.files = files]
\* JSON.stringify({ success: true, id: out.id }); an undefined id is left out.
UploadedBody(id) == [NoBody EXCEPT !.kind = "uploaded", !.id = id]
\* The body of a download: the decoded text, or the base64 of the bytes.
TextContent(text) == [NoBody EXCEPT !.kind = "text", !.text = text]
Base64Content(base64) == [NoBody EXCEPT !.kind = "base64", !.base64 = base64]

\* contentType is the Content-Type of a download's response, <<>> on the
\* other responses.
NoResponse ==
    [statusCode |-> Null, headers |-> corsHeaders(NoAllowOrigin), contentType |-> <<>>,
     body |-> NoBody, isBase64Encoded |-> FALSE]

IdleHandler ==
    [pc |-> "idle", event |-> <<>>, method |-> "", id |-> "", list |-> FALSE,
     post |-> "", name |-> "", allowOrigin |-> NoAllowOrigin,
     token |-> Null, files |-> <<>>, pageToken |-> Null, i |-> 0, res |-> Null,
     cacheSeconds |-> Null, response |-> NoResponse,
     \* history of the invocation
     op |-> "", caught |-> NoErr, detail |-> "", created |-> "", stored |-> 0,
     content |-> <<>>, decoded |-> NotDecoded,
     bearers |-> {}, tokenExp |-> 0, sentExpired |-> FALSE,
     tokenCalls |-> 0, authFailed |-> FALSE, fetches |-> 0,
     sent |-> <<>>, pages |-> <<>>]

\* respond(allowOrigin, { statusCode, headers, body }) with a Cache-Control
\* of maxAge, or without one.
RespondWith(hh, statusCode, body, maxAge) ==
    [hh EXCEPT !.pc = "responded",
               !.response = [NoResponse EXCEPT
                                 !.statusCode = statusCode,
                                 !.headers = [corsHeaders(hh.allowOrigin) EXCEPT !.maxAge = maxAge],
                                 !.body = body]]

Respond(hh, statusCode, body) == RespondWith(hh, statusCode, body, Null)

\* isAbortError(e)
isAbortError(e) == e = "AbortError"

\* An exception that no catch takes leaves the handler.
Uncaught(hh, e) == [hh EXCEPT !.pc = "escaped", !.caught = e]

\* The catch of the GET branch (lines 454-469).
CatchGet(hh, e) ==
    IF isAbortError(e)
    THEN Respond([hh EXCEPT !.caught = e], 504, ErrorBody("Timeout Google Drive", Null))
    ELSE Respond([hh EXCEPT !.caught = e], 500, ErrorBody("Erreur interne proxy Drive", Null))

\* The catch of the POST branch (lines 321-328).
CatchPost(hh, e) ==
    Respond([hh EXCEPT !.caught = e], 500, ErrorBody("Erreur interne upload", Null))

StartFetchAnonymous(hh, pc) ==
    [hh EXCEPT !.pc = pc, !.op = pc, !.fetches = @ + 1, !.bearers = @ \cup {Null}]
\* The handler starts a fetchWithRetry call: the frame, the counters, and
\* the first attempt's request.
StartFetch(hh, pc) == Sends([hh EXCEPT !.pc = pc, !.op = pc, !.fetches = @ + 1])

\* An inbound event: lines 219-244, up to the await of getAccessToken.
HInvoke(events) ==
    /\ h.pc \in {"idle", "responded"}
    /\ fr.pc = "idle"
    /\ ga[1].pc = "idle"
    /\ \E e \in events :
         LET method == IF e.method = "" THEN "GET" ELSE e.method
             hh == [IdleHandler EXCEPT !.event = e,
                                       !.method = method,
                                       !.allowOrigin = pickAllowOrigin(e.origin),
                                       !.post = e.post]
         IN  \/ /\ method = "OPTIONS"
                /\ h' = Respond([hh EXCEPT !.op = "preflight"], 204, NoBody)
                /\ UNCHANGED tokenVars
             \/ /\ method \notin {"OPTIONS", "GET", "POST"}
                /\ h' = Respond(hh, 405, TextBody("Methode non autorisee"))
                /\ UNCHANGED tokenVars
             \/ /\ method \in {"GET", "POST"}
                /\ h' = [hh EXCEPT !.pc = "token", !.tokenCalls = 1]
                /\ GetAccessTokenEnter(1)
    /\ UNCHANGED fr

AuthNeverFails(call) == FALSE
\* The catch around getAccessToken (lines 243-252) is entered.
AuthFailed(call) == call.pc = "threw"

\* The POST branch from the token to the upload request (lines 255-302).
PostBranch(hh) ==
    IF hh.post = "malformed" THEN <<CatchPost(hh, "SyntaxError"), FALSE>>
    ELSE IF hh.post = "missing"
    THEN <<Respond(hh, 400, TextBody("Parametres manquants pour upload")), FALSE>>
    ELSE <<StartFetch(hh, "upload"), TRUE>>

\* The GET branch from the token to the first request (lines 332-367, 397-406).
GetBranch(hh, now) ==
    LET h1 == [hh EXCEPT !.id = hh.event.id,
                         !.name = hh.event.name,
                         !.list = (toLowerCase(hh.event.list) = "true")]
    IN  IF h1.id = "" THEN <<Respond(h1, 400, TextBody("Missing id parameter")), FALSE>>
        ELSE IF h1.list
        THEN <<[StartFetch(h1, "list") EXCEPT !.sent = Append(@, h1.pageToken)], TRUE>>
        ELSE <<[StartFetch(h1, "download") EXCEPT
                    !.cacheSeconds = computeCacheSeconds(h1.name, now)], TRUE>>

Attempts(pc) ==
    IF pc = "list" THEN ListAttempts
    ELSE IF pc = "download" THEN DownloadAttempts ELSE UploadAttempts

TimeoutMs(pc) ==
    IF pc = "list" THEN ListTimeoutMs
    ELSE IF pc = "download" THEN DownloadTimeoutMs ELSE UploadTimeoutMs

\* fetchWithRetry(url, options, { attempts, timeoutMs }) at the call site of
\* the operation pc.
CallSite(pc) ==
    [NewFrame(Attempts(pc), DefaultRetryStatuses) EXCEPT !.timeoutMs = TimeoutMs(pc)]

\* getAccessToken has settled: lines 245-252 on failure, else the branch of
\* the method up to its first await.
HToken ==
    /\ h.pc = "token"
    /\ ga[1].pc \in {"done", "threw"}
    /\ LET hh == [h EXCEPT !.token = ga[1].ret, !.authFailed = (ga[1].pc = "threw"),
                           !.tokenExp = IF ga[1].pc = "done" THEN cachedTokenExpMs ELSE 0]
           br == IF hh.method = "POST" THEN PostBranch(hh) ELSE GetBranch(hh, clock)
       IN  IF AuthFailed(ga[1])
           THEN /\ h' = Respond([Logged(hh, ga[1].err) EXCEPT !.caught = ga[1].err], 500,
                                ErrorBody("Auth Service Account echouee", Null))
                /\ fr' = fr
           ELSE /\ h' = br[1]
                /\ fr' = IF br[2] THEN CallSite(br[1].pc) ELSE fr
    /\ ga' = [ga EXCEPT ![1] = IdleCall]
    /\ UNCHANGED <<cachedToken, cachedTokenExpMs, clock, ticks, env, issued, fetchLog>>

\* fetchWithRetry has settled for a list page, a download or an upload: the
\* exception goes to the branch's catch, the response to the read of its body.
HFetched ==
    /\ h.pc \in {"list", "download", "upload"}
    /\ FrFinished
    /\ \E message \in Details :
       h' = IF fr.pc = "threw"
            THEN IF h.pc = "upload" THEN CatchPost(Logged(h, message), fr.err)
                                    ELSE CatchGet(Logged(h, message), fr.err)
            ELSE [h EXCEPT !.res = fr.res,
                           !.pc = IF h.pc = "list" THEN "listBody"
                                  ELSE IF h.pc = "upload" THEN "uploadBody"
                                  ELSE IF IsOk(fr.res) THEN "downloadBody"
                                  ELSE "downloadErrBody"]
    /\ fr' = IdleFrame
    /\ UNCHANGED tokenVars

PassthroughAsBadGateway(hh, error) == Respond(hh, 502, ErrorBody(error, hh.res))
PassthroughEchoes(hh, error) == Respond(hh, hh.res, ErrorBody(hh.detail, hh.res))
\* JSON.stringify({ error, status: res.status }) with statusCode res.status.
Passthrough(hh, error) == Respond(hh, hh.res, ErrorBody(error, hh.res))

LoopStopsEarly(i) == i < maxPages - 1
LoopOneMore(i) == i <= maxPages
\* for (let i = 0; i < maxPages; i++)
LoopGoesOn(i) == i < maxPages

\* pageToken = data.nextPageToken
NextPageToken(nextPageToken) == nextPageToken

FilesReplaced(files, more) == more
\* files.push(...(data.files || []))
Accumulate(files, more) == files \o more

\* One list page's body has been read (lines 369-394). txt is the body, or
\* "{}" when the read failed.
ListPage(hh, read, nextPageToken) ==
    IF ~IsOk(hh.res) THEN <<Passthrough(hh, "Erreur Google Drive (list)"), FALSE>>
    ELSE IF read = "notjson" THEN <<CatchGet(hh, "SyntaxError"), FALSE>>
    ELSE LET page  == PageAsked(hh.pageToken)
             data  == IF read = "json"
                      THEN [files |-> PageFiles(hh.id, page), nextPageToken |-> nextPageToken]
                      ELSE [files |-> <<>>, nextPageToken |-> Null]
             h1    == [hh EXCEPT !.files = Accumulate(@, data.files),
                                 !.pageToken = NextPageToken(data.nextPageToken),
                                 !.pages = IF read = "json"
                                           THEN Append(@, [page |-> page, next |-> nextPageToken])
                                           ELSE @]
         IN  IF h1.pageToken # Null /\ LoopGoesOn(hh.i + 1)
             THEN <<[StartFetch(h1, "list") EXCEPT !.i = @ + 1,
                                                   !.sent = Append(@, h1.pageToken)], TRUE>>
             ELSE <<RespondWith(h1, 200, FilesBody(h1.files), 30), FALSE>>

HListBody ==
    /\ h.pc = "listBody"
    /\ \E read \in BodyReads, more \in BOOLEAN, txt \in Details :
         LET page == PageAsked(h.pageToken)
             hh   == IF IsOk(h.res) /\ read # "notjson" THEN h ELSE Logged(h, txt)
             st   == ListPage(hh, read, IF more THEN page + 1 ELSE Null)
         IN  /\ h' = st[1]
             /\ fr' = IF st[2] THEN CallSite("list") ELSE fr
    /\ UNCHANGED tokenVars

\* The body of a refused download has been read, or not (lines 408-416).
HDownloadErrBody ==
    /\ h.pc = "downloadErrBody"
    /\ \E errTxt \in Details :
         h' = Passthrough(Logged(h, errTxt), "Erreur Google Drive (download)")
    /\ UNCHANGED <<fr, tokenVars>>

\* What the upstream answers a download with: the bytes, and the
\* Content-Type header.
Content(bytes, type) == [bytes |-> bytes, type |-> type]

\* Every content: every buffer as text/plain and as a csv type, and the
\* buffers of up to three bytes under every Content-Type.
Contents ==
    {Content(b, t) : b \in Buffers, t \in {TextPlain, <<"application/", "x-", "csv">>}}
        \cup {Content(b, t) : b \in {q \in Buffers : Len(q) <= 3}, t \in ContentTypes}

\* A text and a binary content.
CoreContents == {Content(<<65>>, TextPlain), Content(<<65>>, <<"image/", "png">>)}

\* The text branch of a download (lines 421-439).
TextDownload(hh, arrayBuf, contentType) ==
    LET d    == decodeTextSmart(arrayBuf)
        text == IF shouldAddBom(hh.name, contentType) THEN WithMark(d.text) ELSE d.text
        hr   == RespondWith([hh EXCEPT !.decoded = d], 200, TextContent(text), hh.cacheSeconds)
    IN  [hr EXCEPT !.response.contentType = ensureCharsetUtf8(contentType, hh.name)]

\* The binary branch of a download: the envelope built in place (lines
\* 441-453).
BinaryDownload(hh, arrayBuf, contentType) ==
    [hh EXCEPT !.pc = "responded",
               !.response = [statusCode |-> 200,
                             headers |-> [corsHeaders(hh.allowOrigin) EXCEPT
                                             !.maxAge = hh.cacheSeconds],
                             contentType |-> contentType,
                             body |-> Base64Content(Base64(arrayBuf)),
                             isBase64Encoded |-> TRUE]]

\* await res.arrayBuffer() of a download (lines 418-453): the content as
\* decoded text, or as base64, or the catch when the read fails.
HDownloadBody(contents) ==
    /\ h.pc = "downloadBody"
    /\ \/ \E message \in Details :
            h' = CatchGet(Logged(h, message), "TypeError")
       \/ \E c \in contents :
            LET contentType == IF c.type = <<>> THEN OctetStream ELSE c.type
                hh          == [h EXCEPT !.content = c]
            IN  h' = IF isCsvOrText(contentType, h.name)
                     THEN TextDownload(hh, c.bytes, contentType)
                     ELSE BinaryDownload(hh, c.bytes, contentType)
    /\ UNCHANGED <<fr, tokenVars>>

\* The body of the upload's response has been read, or "" (lines 304-320):
\* out is the parsed body, or {} when it was not read or is not JSON.
HUploadBody ==
    /\ h.pc = "uploadBody"
    /\ \E read \in BodyReads, created \in CreatedIds, txt \in Details :
         h' = IF ~IsOk(h.res) THEN Passthrough(Logged(h, txt), "Erreur upload Drive")
              ELSE Respond([h EXCEPT !.created = created], 200,
                           UploadedBody(IF read = "json" THEN created ELSE ""))
    /\ UNCHANGED <<fr, tokenVars>>

(***************************************************************************)
(* Specifications                                                          *)
(***************************************************************************)
Init ==
    /\ fr = IdleFrame
    /\ cachedToken = Null
    /\ cachedTokenExpMs = 0
    /\ clock = 0
    /\ ticks = 0
    /\ env \in {"ok", "absent", "malformed"}
    /\ issued = 0
    /\ fetchLog = <<>>
    /\ ga = [p \in Callers |-> IdleCall]
    /\ h = IdleHandler

\* Direct calls of fetchWithRetry, one at a time, under every policy.
NextRetry ==
    \/ FrCall
    \/ FrAttempt
    \/ FrBackoff
    \/ FrWake
    \/ FrExit
    \/ FrDone

SpecRetry == Init /\ [][NextRetry]_vars

\* Concurrent callers of getAccessToken in one process, and the clock.
NextToken ==
    \/ \E p \in Callers : GaCall(p)
    \/ \E p \in Callers : GaIdp(p)
    \/ \E p \in Callers : GaReturn(p)
    \/ Tick

SpecToken == Init /\ [][NextToken]_vars

\* Invocations of the handler, one after the other, and the clock.
NextHandler ==
    \/ HInvoke(CoreEvents)
    \/ GaIdp(1)
    \/ HToken
    \/ FrAttempt
    \/ FrBackoff
    \/ FrWake
    \/ FrExit
    \/ HFetched
    \/ HListBody
    \/ HDownloadErrBody
    \/ HDownloadBody(CoreContents)
    \/ HUploadBody
    \/ Tick

SpecHandler == Init /\ [][NextHandler]_vars

\* Invocations of the handler, one after the other, with the clock standing
\* still and every step that can be taken eventually taken: the event loop runs every
\* continuation that is ready, a transport call settles by its timeout, a
\* timer fires, and a body that is being read is taken to arrive or fail.
NextHandlerFair ==
    \/ HInvoke(CoreEvents)
    \/ GaIdp(1)
    \/ HToken
    \/ FrAttempt
    \/ FrBackoff
    \/ FrWake
    \/ FrExit
    \/ HFetched
    \/ HListBody
    \/ HDownloadErrBody
    \/ HDownloadBody(CoreContents)
    \/ HUploadBody

SpecHandlerFair == Init /\ [][NextHandlerFair]_vars /\ WF_vars(NextHandlerFair)

\* The steps of the invocation in progress.
InvocationStep ==
    \/ GaIdp(1)
    \/ HToken
    \/ FrAttempt
    \/ FrBackoff
    \/ FrWake
    \/ FrExit
    \/ HFetched
    \/ HListBody
    \/ HDownloadErrBody
    \/ HDownloadBody(CoreContents)
    \/ HUploadBody

\* Invocations of the handler, one after the other, for every event, with the
\* clock standing still.
NextRouter ==
    \/ HInvoke(Events)
    \/ InvocationStep

SpecRouter == Init /\ [][NextRouter]_vars

\* Invocations of the handler, one after the other, and the clock, with an
\* upstream that may refuse the token.
NextRefused ==
    \/ HInvoke(CoreEvents)
    \/ GaIdp(1)
    \/ HToken
    \/ FrAttemptOf(RefusingOutcomes)
    \/ FrBackoff
    \/ FrWake
    \/ FrExit
    \/ HFetched
    \/ HListBody
    \/ HDownloadErrBody
    \/ HDownloadBody(CoreContents)
    \/ HUploadBody
    \/ Tick

SpecRefused == Init /\ [][NextRefused]_vars

\* The events that ask for a download, under every name.
DownloadEvents ==
    {[method |-> "GET", origin |-> "", id |-> "F1", list |-> "", name |-> n, post |-> ""] :
        n \in DownloadNames}

\* Downloads, one after the other, of every content, with the clock standing
\* still.
NextDownload ==
    \/ HInvoke(DownloadEvents)
    \/ GaIdp(1)
    \/ HToken
    \/ FrAttempt
    \/ FrBackoff
    \/ FrWake
    \/ FrExit
    \/ HFetched
    \/ HDownloadErrBody
    \/ HDownloadBody(Contents)

SpecDownload == Init /\ [][NextDownload]_vars

(***************************************************************************)
(* Properties: the retry executor (SpecRetry)                              *)
(***************************************************************************)
\* The outcome of the most recent attempt, and whether an outcome is one the
\* policy retries.
LastOutcome == fr.log[Len(fr.log)]
IsFailure(o, retryStatuses) ==
    o.kind = "throw" \/ (~IsOk(o.status) /\ o.status \in retryStatuses)

Exhausted ==
    /\ FrFinished
    /\ fr.attempts > 0
    /\ Len(fr.log) = fr.attempts
    /\ IsFailure(LastOutcome, fr.retryStatuses)

\* C1: when fetchWithRetry has exhausted its attempts and the last attempt
\* threw, it throws that error; it returns a response only when the last
\* attempt itself produced that response.
C1_LastThrowPropagates ==
    Exhausted =>
        IF LastOutcome.kind = "throw"
        THEN fr.pc = "threw" /\ fr.err = LastOutcome.err
        ELSE fr.pc = "returned" /\ fr.res = LastOutcome.status

\* C2: when the first k < n attempts fail (throw, or a retryable status) and
\* attempt k+1 answers with a success status, that response is returned after
\* exactly k+1 transport calls; a failed attempt ends the call only when it
\* was the last of the budget.
C2_SuccessAfterFailures ==
    /\ fr.calls = Len(fr.log)
    /\ (Len(fr.log) > 0 /\ LastOutcome.kind = "resp" /\ IsOk(LastOutcome.status)) =>
          /\ fr.pc = "returned"
          /\ fr.res = LastOutcome.status
          /\ fr.calls = fr.i + 1
          /\ \A k \in 1..(Len(fr.log) - 1) : IsFailure(fr.log[k], fr.retryStatuses)
    /\ (FrFinished /\ Len(fr.log) > 0 /\ IsFailure(LastOutcome, fr.retryStatuses)) =>
          Len(fr.log) = fr.attempts

C2_Witness ==
    /\ fr.pc = "returned"
    /\ fr.attempts = 3
    /\ fr.calls = 3
    /\ fr.res = 200
    /\ Len(fr.log) = 3
    /\ fr.log[1] = Throw("AbortError")
    /\ fr.log[2] = Resp(503)
    /\ fr.log[3] = Resp(200)

\* C3: an attempt that answers with a status that is neither a success nor in
\* the policy's retryable set ends the call: that response is returned, no
\* transport call and no backoff sleep follow it, and on the first attempt
\* exactly one transport call was made.
C3_NonRetryableReturnsAtOnce ==
    \A k \in 1..Len(fr.log) :
        (/\ fr.log[k].kind = "resp"
         /\ ~IsOk(fr.log[k].status)
         /\ fr.log[k].status \notin fr.retryStatuses) =>
            /\ k = Len(fr.log)
            /\ fr.pc = "returned"
            /\ fr.res = fr.log[k].status
            /\ fr.calls = k
            /\ fr.sleeps = k - 1

C3_Witness ==
    /\ fr.pc = "returned"
    /\ fr.log = <<Resp(404)>>
    /\ fr.res = 404
    /\ fr.calls = 1
    /\ fr.sleeps = 0

(***************************************************************************)
(* Properties: the token cache (SpecToken)                                 *)
(***************************************************************************)
FetchOf(token) == {k \in 1..Len(fetchLog) : fetchLog[k].token = token}

\* C4: getAccessToken returns the cached token without a request to the
\* identity provider only when the time of the call is strictly before
\* cachedTokenExpMs - 30 s, the expiry cached with that token.
C4_CacheHitOnlyBeforeMargin ==
    \A p \in Callers :
        (ga[p].pc = "done" /\ ~ga[p].idp) =>
            /\ ga[p].tokAtCall # Null
            /\ ga[p].ret = ga[p].tokAtCall
            /\ ga[p].now < ga[p].expAtCall - MarginMs
            /\ \E k \in FetchOf(ga[p].ret) :
                   ga[p].expAtCall = fetchLog[k].start + TokenLifeMs

C4_Witness ==
    \E p \in Callers :
        /\ ga[p].pc = "done"
        /\ ~ga[p].idp
        /\ ga[p].ret # Null
        /\ ga[p].now = ga[p].expAtCall - MarginMs - 1

\* C5: a call made while a token is cached and the time is before its expiry
\* minus 30 s returns that same token, the one the call that fetched it
\* returned, and asks the identity provider nothing; a call made at or after
\* expiry minus 30 s asks the identity provider, and the token it then returns
\* is a new one, recorded with this call's start time.
C5_SameWindowSameToken ==
    \A p \in Callers :
        ga[p].pc # "idle" =>
            IF ga[p].tokAtCall # Null /\ ga[p].now < ga[p].expAtCall - MarginMs
            THEN /\ ga[p].pc = "done"
                 /\ ~ga[p].idp
                 /\ ga[p].ret = ga[p].tokAtCall
                 /\ FetchOf(ga[p].ret) # {}
            ELSE /\ env = "ok" => ga[p].idp
                 /\ ga[p].pc = "done" =>
                       /\ ga[p].idp
                       /\ ga[p].ret # ga[p].tokAtCall
                       /\ \E k \in FetchOf(ga[p].ret) : fetchLog[k].start = ga[p].now

C5_Witness ==
    \E p, q \in Callers :
        /\ ga[p].pc = "done" /\ ~ga[p].idp
        /\ ga[q].pc = "done" /\ ga[q].idp
        /\ ga[q].tokAtCall = ga[p].ret
        /\ ga[q].now = ga[q].expAtCall - MarginMs
        /\ ga[q].ret # ga[p].ret
        /\ cachedToken = ga[q].ret

\* C6: under every interleaving of getAccessToken calls the cached pair is
\* the initial (null, 0) or the token of one completed fetch with that same
\* call's start time plus 55 minutes, and it is the pair of the fetch that
\* completed last.
C6_CachePairConsistent ==
    /\ IF fetchLog = <<>>
       THEN cachedToken = Null /\ cachedTokenExpMs = 0
       ELSE LET last == fetchLog[Len(fetchLog)]
            IN  /\ cachedToken = last.token
                /\ cachedTokenExpMs = last.start + TokenLifeMs
    /\ \A j, k \in 1..Len(fetchLog) : fetchLog[j].token = fetchLog[k].token => j = k

C6_Witness ==
    /\ Len(fetchLog) = 2
    /\ fetchLog[1].start > fetchLog[2].start
    /\ cachedToken = fetchLog[2].token
    /\ cachedTokenExpMs = fetchLog[2].start + TokenLifeMs
    /\ cachedTokenExpMs < fetchLog[1].start + TokenLifeMs

(***************************************************************************)
(* Properties: the handler (SpecHandler, SpecHandlerFair)                  *)
(***************************************************************************)
RECURSIVE ConcatPages(_, _)
\* The entries of the first k pages of a folder, in upstream order.
ConcatPages(id, k) == IF k = 0 THEN <<>> ELSE ConcatPages(id, k - 1) \o PageFiles(id, k)

ListInvocation == h.op = "list"

\* C7: when token acquisition fails in a GET or POST invocation the handler
\* answers 500, has called getAccessToken once, and makes no request to the
\* storage API.
C7_AuthFailureIs500 ==
    h.authFailed =>
        /\ h.pc = "responded"
        /\ h.method \in {"GET", "POST"}
        /\ h.response.statusCode = 500
        /\ h.response.body.kind = "error"
        /\ h.tokenCalls = 1
        /\ h.fetches = 0
        /\ h.token = Null
        /\ fr.pc = "idle"

C7_Witness ==
    /\ h.pc = "responded"
    /\ h.authFailed
    /\ env = "ok"
    /\ h.method = "GET"
    /\ h.event.list = "true"
    /\ h.response.statusCode = 500

\* C8: when the upstream answers a list request with k <= 25 well-formed
\* success pages, the last one without a next-page token, the response is 200
\* with the entries of the k pages in upstream order, each once, and every
\* request after the first carried the token the previous page returned.
C8_ListConcatenation ==
    (/\ h.pc = "responded"
     /\ ListInvocation
     /\ h.fetches > 0
     /\ Len(h.pages) = h.fetches
     /\ h.pages[Len(h.pages)].next = Null) =>
        /\ h.response.statusCode = 200
        /\ h.response.body.kind = "files"
        /\ h.response.body.files = ConcatPages(h.id, Len(h.pages))
        /\ \A a, b \in 1..Len(h.response.body.files) :
               h.response.body.files[a] = h.response.body.files[b] => a = b
        /\ Len(h.sent) = Len(h.pages)
        /\ h.sent[1] = Null
        /\ \A j \in 2..Len(h.sent) : h.sent[j] = h.pages[j - 1].next
        /\ \A j \in 1..Len(h.pages) : h.pages[j].page = j

C8_Witness ==
    /\ h.pc = "responded"
    /\ ListInvocation
    /\ h.id = "F1"
    /\ h.fetches = 3
    /\ Len(h.pages) = 3
    /\ h.pages[3].next = Null
    /\ h.response.statusCode = 200
    /\ h.response.body.files = <<11, 12, 21, 22, 31, 32>>

ListBounded ==
    /\ h.fetches <= maxPages
    /\ h.i < maxPages
    /\ Len(h.sent) = h.fetches
    /\ h.pc = "list" => fr.attempts = ListAttempts
    /\ fr.calls <= fr.attempts
    /\ h.fetches * ListAttempts <= 75

C10_NoPartialList ==
    (h.pc = "responded" /\ ListInvocation /\ Len(h.pages) >= 1) =>
        IF Len(h.pages) < h.fetches
        THEN /\ h.response.statusCode # 200
             /\ h.response.body.kind = "error"
             /\ h.response.body.files = <<>>
        ELSE /\ h.response.statusCode = 200
             /\ h.response.body.files = ConcatPages(h.id, h.fetches)

(***************************************************************************)
(* The handler's responses                                                 *)
(***************************************************************************)
Responded == h.pc = "responded"

\* The final response of the storage API for the operation was read and is
\* not a success.
UpstreamRefused == Responded /\ h.res # Null /\ ~IsOk(h.res)

\* C11: every failure response of the handler (status >= 400) has a body that
\* is a JSON object with a string field error, and optionally a numeric field
\* status.
C11_FailureBodyIsErrorEnvelope ==
    (Responded /\ h.response.statusCode >= 400) =>
        /\ h.response.body.kind = "error"
        /\ h.response.body.error # ""
        /\ h.response.body.status \in {Null} \cup Statuses

C13_TimeoutIs504 ==
    Responded =>
        /\ isAbortError(h.caught) => h.response.statusCode = 504
        /\ h.response.statusCode = 500 => ~isAbortError(h.caught)

\* C14: when the storage API's final response for list, download or upload
\* is not a success, the response's statusCode is that status and the body's
\* status field is that status.
C14_UpstreamStatusPassedThrough ==
    UpstreamRefused =>
        /\ h.response.statusCode = h.res
        /\ h.response.body.kind = "error"
        /\ h.response.body.status = h.res

\* A list, a download and an upload each end on a retryable status left after
\* the attempts, or on a status that is not retried.
C14_Witness ==
    /\ UpstreamRefused
    /\ h.op = "upload"
    /\ h.res = 404
    /\ h.response.statusCode = 404

\* The request's input is invalid: a GET without id, a POST whose JSON lacks
\* a required field, a POST whose body is not JSON.
InvalidInput ==
    \/ h.method = "GET" /\ h.event.id = ""
    \/ h.method = "POST" /\ h.post \in {"missing", "malformed"}

\* C15: a request with invalid client input is answered 400 and causes no
\* request to the storage API (once the token was acquired, which the
\* handler does before it reads the input).
C15_InvalidInputIs400 ==
    (Responded /\ InvalidInput /\ ~h.authFailed) =>
        /\ h.response.statusCode = 400
        /\ h.fetches = 0

\* The operation the event asks for.
Asked(e) ==
    IF e.method = "OPTIONS" THEN "preflight"
    ELSE IF e.method = "POST" THEN (IF e.post = "upload" THEN "upload" ELSE "")
    ELSE IF e.method \notin {"GET", ""} THEN ""
    ELSE IF e.id = "" THEN ""
    ELSE IF e.list \in {"true", "TRUE"} THEN "list" ELSE "download"

\* C16: the handler dispatches on the method and the parameters: OPTIONS
\* gives 204 with an empty body, a method other than GET, POST and OPTIONS
\* gives 405, and neither acquires a token nor calls the storage API; POST
\* with the upload flag runs upload, GET with list=true in any case runs
\* list, any other GET with an id runs download; no other operation runs.
C16_Dispatch ==
    /\ h.op # "" => h.op = Asked(h.event)
    /\ h.fetches > 0 => h.op \in {"list", "download", "upload"}
    /\ (Responded /\ ~h.authFailed) => h.op = Asked(h.event)
    /\ (Responded /\ h.method = "OPTIONS") =>
          /\ h.response.statusCode = 204
          /\ h.response.body = NoBody
          /\ h.tokenCalls = 0 /\ h.fetches = 0
    /\ (Responded /\ h.method \notin {"OPTIONS", "GET", "POST"}) =>
          /\ h.response.statusCode = 405
          /\ h.tokenCalls = 0 /\ h.fetches = 0

\* list=TRUE ran the list operation.
C16_Witness ==
    /\ Responded
    /\ h.event.list = "TRUE"
    /\ h.op = "list"
    /\ h.response.statusCode = 200
    /\ h.response.body.kind = "files"

\* C17: every response of the handler has Access-Control-Allow-Methods and
\* Access-Control-Allow-Headers; Access-Control-Allow-Origin is the inbound
\* Origin when that origin is in the allow-list, "*" when the request has no
\* Origin, and absent for any other Origin.
C17_Cors ==
    Responded =>
        /\ h.response.headers.allowMethods = "GET, POST, OPTIONS"
        /\ h.response.headers.allowHeaders = "Content-Type, Authorization, X-Requested-With"
        /\ h.response.headers.allowOrigin =
              IF h.event.origin = "" THEN "*"
              ELSE IF h.event.origin \in HardcodedOrigins \cup DomainsAllowed
                   THEN h.event.origin
              ELSE Absent

\* A binary download asked from an origin outside the allow-list.
C17_Witness ==
    /\ Responded
    /\ h.event.origin = "https://evil.example"
    /\ h.response.statusCode = 200
    /\ h.response.body.kind = "base64"
    /\ h.response.headers.allowOrigin = Absent

\* C18: a successful list response has max-age 30; a successful download
\* response, text or binary, has max-age 60 when the name parameter holds
\* today's UTC date as YYYYMMDD, and 3600 otherwise, also without a name.
C18_CacheControl ==
    (Responded /\ h.response.statusCode = 200) =>
        /\ h.op = "list" => h.response.headers.maxAge = 30
        /\ h.op = "download" =>
              h.response.headers.maxAge =
                  IF Today(clock) \in DatesIn(h.event.name) THEN 60 ELSE 3600

\* A download of a file named after today.
C18_Witness ==
    /\ Responded
    /\ h.op = "download"
    /\ h.response.statusCode = 200
    /\ h.event.name = "releve_19700101.csv"
    /\ Today(clock) = 0
    /\ h.response.headers.maxAge = 60

\* The handler is waiting on the network: for the identity provider, for an
\* attempt of a storage API request, or for a response's body.
AwaitsIdp == h.pc = "token" /\ ga[1].pc = "await"
AwaitsAttempt == fr.pc = "loop" /\ fr.i < fr.attempts
AwaitsBody == h.pc \in {"listBody", "downloadBody", "downloadErrBody", "uploadBody"}

\* C19: every network interaction of an invocation is bounded by an explicit
\* timeout: while the handler waits for the identity provider, for a storage
\* API request or for a response's body, a timer that ends the wait is
\* pending.
C19_EveryWaitHasTimeout ==
    (AwaitsIdp \/ AwaitsAttempt \/ AwaitsBody) => fr.timer

\* C20: every 200 response to an upload is {success: true, id} with id the
\* identifier of the resource the upstream created.
C20_UploadReportsId ==
    (Responded /\ h.op = "upload" /\ h.response.statusCode = 200) =>
        /\ h.response.body.kind = "uploaded"
        /\ h.response.body.id = h.created

(***************************************************************************)
(* The retry executor's budget and delays                                  *)
(***************************************************************************)
AllTimedOut(f) ==
    \A k \in 1..Len(f.log) : f.log[k] = Throw("AbortError")

\* C25: an attempt that times out is aborted and counts as one failed
\* attempt: fetchWithRetry never makes more than attempts transport calls,
\* every attempt that threw or was retried is followed by at most one sleep,
\* and a call whose transport always times out throws the abort error after
\* exactly attempts calls.
C25_TimeoutsSpendTheBudget ==
    /\ fr.calls <= fr.attempts
    /\ fr.calls = Len(fr.log)
    /\ fr.sleeps <= fr.calls
    /\ (FrFinished /\ fr.attempts > 0 /\ AllTimedOut(fr)) =>
          /\ fr.pc = "threw"
          /\ fr.err = "AbortError"
          /\ fr.calls = fr.attempts

\* A call with a budget of three whose three attempts timed out.
C25_Witness ==
    /\ fr.pc = "threw"
    /\ fr.attempts = 3
    /\ fr.calls = 3
    /\ AllTimedOut(fr)
    /\ fr.err = "AbortError"

\* C26: the delay slept after the failed attempt of index i is d with
\* baseDelayMs * 2^i <= d < baseDelayMs * 2^i + 120, baseDelayMs being 250.
C26_BackoffDelayBounds ==
    fr.pc = "sleeping" =>
        /\ 250 * (2 ^ fr.i) <= fr.delay
        /\ fr.delay < 250 * (2 ^ fr.i) + 120

\* The sleep after the third failed attempt.
C26_Witness ==
    /\ fr.pc = "sleeping"
    /\ fr.i = 2
    /\ fr.sleeps = 3
    /\ fr.delay >= 1000

\* C27: the download call site uses a strictly longer per-attempt timeout
\* and strictly fewer attempts than the list call site, and the upload call
\* site a timeout strictly between the two.
C27_PoliciesDiffer ==
    /\ (h.pc = "download" /\ fr.pc # "idle") =>
          /\ fr.timeoutMs > CallSite("list").timeoutMs
          /\ fr.attempts < CallSite("list").attempts
    /\ (h.pc = "upload" /\ fr.pc # "idle") =>
          /\ fr.timeoutMs > CallSite("list").timeoutMs
          /\ fr.timeoutMs < CallSite("download").timeoutMs

\* C30: one upload invocation causes at most one resource to be created in
\* the storage, whatever the upstream does.
C30_AtMostOneCreated ==
    h.op = "upload" => h.stored <= 1

(***************************************************************************)
(* What the client sees of a failure                                       *)
(***************************************************************************)
\* The error envelope as a function of the request, the upstream status and
\* the kind of the error, and of nothing else.
EnvelopeOf(op, method, authFailed, res, caught) ==
    IF authFailed THEN [statusCode |-> 500, body |-> ErrorBody("Auth Service Account echouee", Null)]
    ELSE IF caught # NoErr
    THEN IF method = "POST"
         THEN [statusCode |-> 500, body |-> ErrorBody("Erreur interne upload", Null)]
         ELSE IF caught = "AbortError"
         THEN [statusCode |-> 504, body |-> ErrorBody("Timeout Google Drive", Null)]
         ELSE [statusCode |-> 500, body |-> ErrorBody("Erreur interne proxy Drive", Null)]
    ELSE [statusCode |-> res,
          body |-> ErrorBody(IF op = "list" THEN "Erreur Google Drive (list)"
                             ELSE IF op = "download" THEN "Erreur Google Drive (download)"
                             ELSE "Erreur upload Drive", res)]

Downloaded == Responded /\ h.op = "download" /\ h.response.statusCode = 200

\* The decoder was applied to the bytes of the download.
DecodedDownload == Downloaded /\ h.decoded # NotDecoded

Utf8Mark == <<239, 187, 191>>

\* C22: for bytes that begin with the UTF-8 mark EF BB BF, decodeTextSmart
\* returns the UTF-8 decoding of the bytes after the mark, without the mark,
\* and takes neither the UTF-16 nor the windows-1252 branch, also when the
\* rest is not valid UTF-8.
C22_MarkedUtf8 ==
    (DecodedDownload /\ StartsWith(h.content.bytes, Utf8Mark)) =>
        /\ h.decoded.text = Utf8(SliceFrom(h.content.bytes, 3))
        /\ h.decoded.branch = "utf8-bom"

\* Marked bytes whose rest is not valid UTF-8.
C22_Witness ==
    /\ DecodedDownload
    /\ h.content.bytes = <<239, 187, 191, 233>>
    /\ h.decoded.text = <<ReplacementChar>>

\* The UTF-8 decoding of bytes, a leading mark being the encoding's
\* signature and not a character of the text.
Utf8Text(bytes) ==
    IF StartsWith(bytes, Utf8Mark) THEN Utf8(SliceFrom(bytes, 3)) ELSE Utf8(bytes)

\* C23: for bytes whose UTF-8 decoding has no replacement character,
\* decodeTextSmart returns that UTF-8 decoding and does not take the
\* windows-1252 branch.
C23_ValidUtf8Kept ==
    (DecodedDownload /\ ~HasReplacement(Utf8(h.content.bytes))) =>
        /\ h.decoded.text = Utf8Text(h.content.bytes)
        /\ h.decoded.branch \in {"utf8", "utf8-bom"}

\* Valid UTF-8 of more than one byte per character, whose windows-1252
\* decoding is another text.
C23_Witness ==
    /\ DecodedDownload
    /\ h.content.bytes = <<65, 233, 187, 191>>
    /\ h.decoded.text = <<65, 40703>>
    /\ h.decoded.text # Win1252(h.content.bytes)

\* C24: for bytes without the UTF-8 mark whose UTF-8 decoding has a
\* replacement character, decodeTextSmart returns the windows-1252 decoding
\* of all the bytes, also when the first two bytes are FF FE or FE FF.
C24_LegacyFallback ==
    (/\ DecodedDownload
     /\ ~StartsWith(h.content.bytes, Utf8Mark)
     /\ HasReplacement(Utf8(h.content.bytes))) =>
        h.decoded.text = Win1252(h.content.bytes)

\* The resource is text by the claim's words: the name ends in .csv, or the
\* content type starts with text/ or contains csv, json or xml.
ClassifiedText ==
    LET u == lowerType(h.content.type)
    IN   \/ endsWithCsv(lowerPart(h.event.name))
        \/ startsWith(u, "text/")
        \/ \E part \in {"csv", "json", "xml"} : includes(u, part)

\* The bytes a base64 text stands for.
RECURSIVE Unbase64(_)
Unbase64(q) ==
    IF Len(q) < 4 THEN <<>>
    ELSE LET first  == q[1] * 4 + q[2] \div 16
             second == (q[2] % 16) * 16 + q[3] \div 4
             third  == (q[3] % 4) * 64 + q[4]
         IN  IF q[3] = Pad THEN <<first>>
             ELSE IF q[4] = Pad THEN <<first, second>>
             ELSE <<first, second, third>> \o Unbase64(SubSeq(q, 5, Len(q)))

\* C28: a successful download has one of two envelopes. For a resource that
\* is text the body is the decoded string, isBase64Encoded is not set and
\* the Content-Type has a charset; for any other the body is the base64 of
\* the upstream's bytes, isBase64Encoded is true, the Content-Type is the
\* upstream's and the decoder is not applied.
C28_TwoEnvelopes ==
    Downloaded =>
        IF ClassifiedText
        THEN /\ h.response.body.kind = "text"
             /\ h.decoded # NotDecoded
             /\ h.response.body.text \in {h.decoded.text, <<MarkChar>> \o h.decoded.text}
             /\ h.response.body.base64 = <<>>
             /\ ~h.response.isBase64Encoded
             /\ includes(lowerType(h.response.contentType), "charset=")
        ELSE /\ h.response.body.kind = "base64"
             /\ h.decoded = NotDecoded
             /\ Unbase64(h.response.body.base64) = h.content.bytes
             /\ h.response.body.text = <<>>
             /\ h.response.isBase64Encoded
             /\ h.response.contentType =
                   IF h.content.type = <<>> THEN OctetStream ELSE h.content.type

\* An XML document is text; bytes without a Content-Type are binary.
C28_Witness ==
    /\ Downloaded
    /\ h.content = Content(<<65, 233>>, <<"application/", "xml">>)
    /\ h.event.name = "photo.png"
    /\ h.response.body.kind = "text"
    /\ h.response.contentType = <<"application/", "xml", "; ", "charset=", "utf-8">>

\* The resource is delimited-values by the claim's words.
ClassifiedCsv ==
    \/ endsWithCsv(lowerPart(h.event.name))
    \/ includes(lowerType(h.content.type), "csv")

\* C29: the body of a successful download of delimited values begins with
\* U+FEFF whatever the encoding of the bytes and with or without a mark in
\* them; the mark is prepended only to a decoded text that does not begin
\* with one; for a name ending in .csv the Content-Type is exactly
\* text/csv; charset=utf-8.
C29_CsvMark ==
    (Downloaded /\ ClassifiedCsv) =>
        /\ h.response.body.kind = "text"
        /\ StartsWith(h.response.body.text, <<MarkChar>>)
        /\ h.response.body.text =
              IF StartsWith(h.decoded.text, <<MarkChar>>) THEN h.decoded.text
              ELSE <<MarkChar>> \o h.decoded.text
        /\ endsWithCsv(lowerPart(h.event.name)) => h.response.contentType = CsvUtf8

\* A csv by its content type only, in windows-1252.
C29_Witness ==
    /\ Downloaded
    /\ h.event.name = ""
    /\ h.content = Content(<<65, 233, 128>>, <<"application/", "x-", "csv">>)
    /\ h.response.body.text = <<MarkChar, 65, 233, 8364>>

(***************************************************************************)
(* Frame conditions of the token cache, sleeps, and the page ceiling       *)
(***************************************************************************)
CacheWritten ==
    cachedToken' # cachedToken \/ cachedTokenExpMs' # cachedTokenExpMs

\* C32: a getAccessToken call that fails leaves cachedToken and
\* cachedTokenExpMs as they were: the cache is written only by a call that
\* obtained a token that is not empty, and both fields are written in that
\* one step.
C32_FailedCallKeepsCache ==
    [][/\ CacheWritten =>
            \E p \in Callers :
                /\ ga[p].pc = "await"
                /\ ga'[p].pc = "done"
                /\ ga'[p].ret # Null
                /\ cachedToken' = ga'[p].ret
                /\ cachedTokenExpMs' = ga[p].now + TokenLifeMs
       /\ \A p \in Callers :
            (ga[p].pc # "threw" /\ ga'[p].pc = "threw") => ~CacheWritten]_vars

\* The identity provider gave an empty token to a call that found a stale
\* token in the cache, and the stale token is still there.
C32_Witness ==
    \E p \in Callers :
        /\ ga[p].pc = "threw"
        /\ ga[p].err = "Token Drive vide"
        /\ ga[p].tokAtCall # Null
        /\ cachedToken = ga[p].tokAtCall
        /\ cachedTokenExpMs = ga[p].expAtCall

\* The attempts of the call in progress that threw or were answered with a
\* retryable status.
FailedAttempts ==
    Cardinality({k \in 1..Len(fr.log) : IsFailure(fr.log[k], fr.retryStatuses)})

\* C35: fetchWithRetry sleeps once after every attempt that threw or was
\* answered with a retryable status, the last attempt of the budget
\* included: a call that has exhausted n attempts has slept n times when it
\* returns or throws; no sleep follows a success or a status that is not
\* retried.
C35_OneSleepPerFailedAttempt ==
    /\ fr.pc \in {"loop", "sleeping", "returned", "threw"} => fr.sleeps = FailedAttempts
    /\ fr.pc = "backoff" => fr.sleeps + 1 = FailedAttempts
    /\ Exhausted => fr.sleeps = fr.attempts
    /\ (fr.pc = "returned" /\ ~IsFailure(LastOutcome, fr.retryStatuses)) =>
          fr.sleeps = Len(fr.log) - 1

\* Three attempts timed out, three sleeps, then the throw.
C35_Witness ==
    /\ fr.pc = "threw"
    /\ fr.attempts = 3
    /\ fr.sleeps = 3
    /\ LastOutcome = Throw("AbortError")

\* C36: when the upstream still returns a next-page token on the 25th page
\* fetched, the list handler responds 200 with the entries of the first 25
\* pages in order, and the response has no error, no status and nothing that
\* says more entries exist.
C36_CeilingTruncatesSilently ==
    (Responded /\ ListInvocation /\ h.response.statusCode = 200 /\ h.pageToken # Null) =>
        /\ h.fetches = 25
        /\ Len(h.pages) = 25
        /\ h.response.body = FilesBody(ConcatPages(h.id, 25))
        /\ DOMAIN h.response.body = DOMAIN NoBody
        /\ h.response.body.error = ""
        /\ h.response.body.status = Null

\* The 25th page of F1 named a 26th.
C36_Witness ==
    /\ Responded
    /\ ListInvocation
    /\ h.id = "F1"
    /\ h.pageToken = 26
    /\ h.response.statusCode = 200
    /\ Len(h.response.body.files) = 50

(***************************************************************************)
(* The token of an invocation's requests                                   *)
(***************************************************************************)
\* C31: every request sent to the storage API during an invocation carries
\* a token whose cached expiry (fetch start plus 55 minutes) has not passed
\* when the request is sent, the later requests of a long list included.
C31_TokenUnexpiredWhenSent ==
    ~h.sentExpired

\* C34: in every GET or POST invocation getAccessToken is called exactly
\* once, before the parameters are validated and before any request to the
\* storage API, and every request of the invocation, every page and every
\* attempt, carries the token that call returned.
C34_OneTokenPerInvocation ==
    /\ (h.pc # "idle" /\ h.method \in {"GET", "POST"}) => h.tokenCalls = 1
    /\ (h.pc # "idle" /\ h.method \notin {"GET", "POST"}) => h.tokenCalls = 0
    /\ h.pc = "token" =>
          /\ h.fetches = 0 /\ h.bearers = {}
          /\ h.id = "" /\ h.name = "" /\ ~h.list
          /\ h.response = NoResponse
    /\ (Responded /\ h.response.statusCode = 400) => (h.tokenCalls = 1 /\ ~h.authFailed)
    /\ h.fetches > 0 =>
          /\ ~h.authFailed
          /\ h.token # Null
          /\ h.bearers = {h.token}

\* A list of three pages, each request with the invocation's token.
C34_Witness ==
    /\ Responded
    /\ ListInvocation
    /\ h.fetches = 3
    /\ h.tokenCalls = 1
    /\ h.token = 1
    /\ h.bearers = {1}

\* The attempts of the call in progress that the upstream refused.
RefusedAttempts ==
    {k \in 1..Len(fr.log) : fr.log[k].kind = "resp" /\ fr.log[k].status \in Unauthorized}

\* C33: no response of the storage API changes the token cache. After a 401
\* or 403 for list, download or upload, cachedToken and cachedTokenExpMs are
\* as before (they change only when the identity provider answers a
\* getAccessToken call), the request is not sent again, neither as a retry
\* nor with a new token, and the next invocation receives the same cached
\* token while the cache is fresh (before the expiry minus 30 s).
C33_RefusalKeepsCache ==
    /\ [][CacheWritten => (h.pc = "token" /\ ga[1].pc = "await")]_vars
    /\ [](RefusedAttempts # {} =>
             /\ RefusedAttempts = {Len(fr.log)}
             /\ fr.pc = "returned")
    /\ [](h.res \in Unauthorized =>
             /\ h.tokenCalls = 1
             /\ h.bearers = {h.token}
             /\ Responded => h.response.statusCode = h.res)
    /\ [][(/\ Responded
           /\ h.res \in Unauthorized
           /\ h'.pc = "token"
           /\ CacheFresh(cachedToken, cachedTokenExpMs, clock)) =>
              (ga'[1].pc = "done" /\ ga'[1].ret = h.token)]_vars

\* An upload the upstream refused with 401, the token still cached.
C33_Witness ==
    /\ Responded
    /\ h.op = "upload"
    /\ h.res = 401
    /\ h.response.statusCode = 401
    /\ h.token # Null
    /\ cachedToken = h.token
    /\ cachedTokenExpMs = h.tokenExp

====
